---- MODULE Spec2Model ----
(***************************************************************************)
(* Configuration resolution of yoga: normalizeConfig and its helpers.      *)
(*                                                                         *)
(* Two revisions of yogaDefaults.ts are part of the sources:               *)
(*   "schema"     packages/yoga/src/yogaDefaults.ts, whose prisma record   *)
(*                is {prismaClientPath, nexusPrismaSchema,                 *)
(*                contextClientName};                                      *)
(*   "datamodel"  unnamed/part_000, whose prisma record is {datamodelInfo, *)
(*                client} and which loads through                          *)
(*                importDatamodelInfoAndClient.                            *)
(* The helpers that are textually identical in both revisions are modelled *)
(* once; the definitions that differ carry the revision as a suffix.       *)
(*                                                                         *)
(* A string is modelled by its split on "/": "./src/context.ts" is         *)
(* <<".", "src", "context.ts">>, "/proj" is <<"", "proj">>, the empty      *)
(* string is <<"">> and a trailing "/" is a trailing "" segment.           *)
(* undefined is the empty sequence, which is the split of no string.       *)
(***************************************************************************)
EXTENDS Integers, Sequences, FiniteSets, TLC

VARIABLES
    revision,      \* which revision of yogaDefaults.ts is running
    config,        \* InputConfig handed to normalizeConfig
    projectDir,    \* normalizeConfig's projectDir
    outDir,        \* normalizeConfig's outDir (tsconfig outDir) or undefined
    cwd,           \* process.cwd()
    fs,            \* the paths that exist on disk
    pc,            \* position inside normalizeConfig
    outputConfig,  \* the fields of outputConfig computed so far
    error,         \* message of the Error thrown, or NoError
    thrownBy,      \* the field resolver the Error was thrown in
    checked,       \* the arguments of existsSync, in call order
    loads,         \* the calls made to the loader, in call order
    pending        \* the loader call being awaited and prisma's locals

vars == <<revision, config, projectDir, outDir, cwd, fs, pc, outputConfig,
          error, thrownBy, checked, loads, pending>>

inputs == <<revision, config, projectDir, outDir, cwd, fs>>

----------------------------------------------------------------------------
(* Strings and values *)

Undefined == <<>>

EmptyString == <<"">>

Truthy(s) == s # Undefined /\ s # EmptyString

Last(s) == s[Len(s)]

Front(s) == SubSeq(s, 1, Len(s) - 1)

IsAbsolute(p) == Len(p) > 0 /\ p[1] = ""

HasTrailingSlash(p) == Len(p) > 1 /\ Last(p) = ""

\* Objects (a client binding, a schema descriptor): supplied inline by the
\* user, produced by the loader from an export of a file, or undefined.
NoObject == [src |-> "undefined", file |-> Undefined, export |-> ""]

InlineObject(name) == [src |-> "inline", file |-> Undefined, export |-> name]

Loaded(filePath, exportName) ==
    [src |-> "loaded", file |-> filePath, export |-> exportName]

\* Error messages: the literal text and the path interpolated after it.
NoError == [text |-> "none", at |-> Undefined]

Message(text, path) == [text |-> text, at |-> path]

\* Outcome of a call: a returned value, a thrown Error, or a suspension at
\* an await on the loader (the requests in await), and the paths the call
\* handed to existsSync on the way.
Return(value, checks) ==
    [threw |-> FALSE, value |-> value, error |-> NoError, checks |-> checks,
     await |-> <<>>]

Throw(message, checks) ==
    [threw |-> TRUE, value |-> Undefined, error |-> message, checks |-> checks,
     await |-> <<>>]

Await(files, value, checks) ==
    [threw |-> FALSE, value |-> value, error |-> NoError, checks |-> checks,
     await |-> files]

----------------------------------------------------------------------------
(* path.join and fs.existsSync *)

RECURSIVE Resolved(_, _, _)
\* The segments of a path with "", "." removed and ".." applied, left to
\* right; a ".." that cannot go up is kept in a relative path and dropped
\* in an absolute one.
Resolved(segs, stack, isAbs) ==
    IF segs = <<>> THEN stack
    ELSE LET s == Head(segs)
             rest == Tail(segs)
         IN  IF s = "" \/ s = "." THEN Resolved(rest, stack, isAbs)
             ELSE IF s = ".."
                  THEN IF stack # <<>> /\ Last(stack) # ".."
                       THEN Resolved(rest, Front(stack), isAbs)
                       ELSE IF isAbs THEN Resolved(rest, stack, isAbs)
                            ELSE Resolved(rest, Append(stack, ".."), isAbs)
                  ELSE Resolved(rest, Append(stack, s), isAbs)

normalize(p) ==
    LET isAbs == IsAbsolute(p)
        body == Resolved(p, <<>>, isAbs)
        trail == IF HasTrailingSlash(p) THEN <<"">> ELSE <<>>
    IN  IF isAbs THEN IF body = <<>> THEN <<"", "">> ELSE <<"">> \o body \o trail
        ELSE IF body = <<>> THEN IF trail = <<>> THEN <<".">> ELSE <<".", "">>
        ELSE body \o trail

join(a, b) ==
    IF a = EmptyString THEN normalize(b)
    ELSE IF b = EmptyString THEN normalize(a)
    ELSE normalize(a \o b)

\* existsSync resolves a relative path against process.cwd().
existsSync(path) ==
    LET abs == IF IsAbsolute(path) THEN normalize(path) ELSE normalize(cwd \o path)
        bare == IF HasTrailingSlash(abs) THEN Front(abs) ELSE abs
    IN  bare \in fs

----------------------------------------------------------------------------
(* Defaults *)

DEFAULTS ==
    [contextPath |-> <<".", "src", "context.ts">>,
     resolversPath |-> <<".", "src", "graphql", "">>,
     ejectFilePath |-> <<".", "src", "index.ts">>,
     output |-> [typegenPath |-> <<".", "yoga", "nexus.ts">>,
                 schemaPath |-> <<".", "src", "schema.graphql">>,
                 buildPath |-> <<".", "dist">>],
     prisma |-> [prismaClientPath |-> <<".", "yoga", "prisma-client", "index.ts">>,
                 contextClientName |-> <<"prisma">>]]

DEFAULT_NEXUS_PRISMA_SCHEMA_PATH == <<".", "yoga", "nexus-prisma", "nexus-prisma.ts">>

DEFAULT_META_SCHEMA_PATH == <<".", "yoga", "nexus-prisma", "datamodel-info.ts">>

DEFAULT_PRISMA_CLIENT_PATH == <<".", "yoga", "prisma-client", "index.ts">>

\* The resolved prisma record; both revisions share one shape here, the
\* fields of the other revision stay undefined.
NoPrisma ==
    [defined |-> FALSE, prismaClientPath |-> Undefined,
     nexusPrismaSchema |-> NoObject, contextClientName |-> Undefined,
     datamodelInfo |-> NoObject, client |-> NoObject]

----------------------------------------------------------------------------
(* Helpers shared by both revisions *)

inputOrDefaultValue(input, defaultValue) ==
    IF Truthy(input) THEN input ELSE defaultValue

inputOrDefaultPath(dir, input, defaultValue) ==
    LET path == inputOrDefaultValue(input, defaultValue)
    IN  join(dir, path)

\* Mutant of optional: a missing path is dropped even when the user gave it.
optional_dropsInput(path, input, errorMessage) ==
    IF ~existsSync(path) THEN Return(Undefined, <<path>>)
    ELSE Return(path, <<path>>)

\* Mutant of optional: a missing path throws even when only the default.
optional_alwaysThrows(path, input, errorMessage) ==
    IF ~existsSync(path) THEN Throw(errorMessage, <<path>>)
    ELSE Return(path, <<path>>)

optional(path, input, errorMessage) ==
    IF ~existsSync(path)
    THEN IF Truthy(input) THEN Throw(errorMessage, <<path>>)
         ELSE Return(Undefined, <<path>>)
    ELSE Return(path, <<path>>)

\* Mutant of requiredPath: the path is returned without looking at the disk.
requiredPath_unchecked(path, errorMessage) == Return(path, <<>>)

requiredPath(path, errorMessage) ==
    IF ~existsSync(path) THEN Throw(errorMessage, <<path>>)
    ELSE Return(path, <<path>>)

contextPath(dir, input) ==
    LET path == inputOrDefaultPath(dir, input, DEFAULTS.contextPath)
    IN  optional(path, input,
                 Message("Could not find a valid contextPath at ", path))

resolversPath(dir, input) ==
    LET path == inputOrDefaultPath(dir, input, DEFAULTS.resolversPath)
    IN  requiredPath(path,
                     Message("Could not find a valid resolversPath at ", path))

ejectFilePath(dir, input) ==
    LET path == inputOrDefaultPath(dir, input, DEFAULTS.ejectFilePath)
    IN  optional(path, input,
                 Message("Could not find a valid ejectFilePath at ", path))

\* Mutant of output: outDir is joined with the project dir like a user path.
output_joinsOutDir(dir, input, out) ==
    LET typegenPath == inputOrDefaultPath(dir, input.typegenPath,
                                          DEFAULTS.output.typegenPath)
        schemaPath == inputOrDefaultPath(dir, input.schemaPath,
                                         DEFAULTS.output.schemaPath)
        buildPath == inputOrDefaultPath(dir, out, DEFAULTS.output.buildPath)
    IN  [typegenPath |-> typegenPath, schemaPath |-> schemaPath,
         buildPath |-> buildPath]

\* `if (!input) input = {}`: an absent output block reads as all undefined.
output(dir, input, out) ==
    LET typegenPath == inputOrDefaultPath(dir, input.typegenPath,
                                          DEFAULTS.output.typegenPath)
        schemaPath == inputOrDefaultPath(dir, input.schemaPath,
                                         DEFAULTS.output.schemaPath)
        buildPath == inputOrDefaultValue(out, join(dir, DEFAULTS.output.buildPath))
    IN  [typegenPath |-> typegenPath, schemaPath |-> schemaPath,
         buildPath |-> buildPath]

\* Mutant of findPrismaConfigFile: only <projectDir>/prisma.yml is probed.
findPrismaConfigFile_noFallback(dir) ==
    LET first == join(dir, <<"prisma.yml">>)
    IN  IF existsSync(first) THEN Return(first, <<first>>)
        ELSE Return(Undefined, <<first>>)

\* null is modelled as Undefined; the second location is probed only when
\* the first does not exist.
findPrismaConfigFile(dir) ==
    LET first == join(dir, <<"prisma.yml">>)
        second == join(join(cwd, <<"prisma">>), <<"prisma.yml">>)
    IN  IF existsSync(first) THEN Return(first, <<first>>)
        ELSE IF existsSync(second) THEN Return(second, <<first, second>>)
        ELSE Return(Undefined, <<first, second>>)

\* Mutant of isPrismaUnused: the negation of hasPrisma is lost.
isPrismaUnused_lostNegation(input, hasPrisma) ==
    input.kind = "undefined" /\ hasPrisma

\* `input === undefined && !hasPrisma`
isPrismaUnused(input, hasPrisma) == input.kind = "undefined" /\ ~hasPrisma

EmptyPrismaInput ==
    [kind |-> "object", prismaClientPath |-> Undefined,
     nexusPrismaSchema |-> NoObject, contextClientName |-> Undefined,
     datamodelInfoPath |-> Undefined, client |-> NoObject]

\* `if (input === true || (input === undefined && hasPrisma)) input = {}`
useAllDefaults(input, hasPrisma) ==
    IF input.kind = "true" \/ (input.kind = "undefined" /\ hasPrisma)
    THEN EmptyPrismaInput
    ELSE input

----------------------------------------------------------------------------
(* The loader (helpers.ts): returns the named export of each file, in the  *)
(* order of the requests.                                                  *)

Request(filePath, exportName) == [filePath |-> filePath, exportName |-> exportName]

transpileAndImportDefault(dir, filePath) == Loaded(filePath, "default")

transpileAndImport(files, dir, out) ==
    [i \in 1..Len(files) |-> Loaded(files[i].filePath, files[i].exportName)]

----------------------------------------------------------------------------
(* prisma, revision "schema" (yogaDefaults.ts) *)

\* The tail of prisma after nexusPrismaSchema is known: contextClientName,
\* then the returned record, whose prismaClientPath is checked on return.
prismaRecord_schema(prismaClientPath, nexusPrismaSchema, input, checks) ==
    LET contextClientName == inputOrDefaultValue(input.contextClientName,
                                                 DEFAULTS.prisma.contextClientName)
        client == requiredPath(prismaClientPath,
                      Message("Could not find a valid prisma.prismaClientPath at ",
                              prismaClientPath))
    IN  IF client.threw THEN Throw(client.error, checks \o client.checks)
        ELSE Return([NoPrisma EXCEPT !.defined = TRUE,
                                     !.prismaClientPath = client.value,
                                     !.nexusPrismaSchema = nexusPrismaSchema,
                                     !.contextClientName = contextClientName],
                    checks \o client.checks)

\* Mutant of prisma_schema: the descriptor is loaded from the default path
\* even when the user supplied the object.
prisma_schema_alwaysLoads(dir, input) ==
    LET probe == findPrismaConfigFile(dir)
        hasPrisma == probe.value # Undefined
    IN  IF isPrismaUnused(input, hasPrisma) THEN Return(NoPrisma, probe.checks)
        ELSE
          LET in == useAllDefaults(input, hasPrisma)
              prismaClientPath == inputOrDefaultPath(dir, in.prismaClientPath,
                                      DEFAULTS.prisma.prismaClientPath)
              schema == requiredPath(DEFAULT_NEXUS_PRISMA_SCHEMA_PATH,
                       Message("Could not find a valid prisma.nexusPrismaSchema at ",
                               DEFAULT_NEXUS_PRISMA_SCHEMA_PATH))
          IN  IF schema.threw
              THEN Throw(schema.error, probe.checks \o schema.checks)
              ELSE Await(<<Request(schema.value, "default")>>,
                         [input |-> in, prismaClientPath |-> prismaClientPath,
                          output |-> <<>>],
                         probe.checks \o schema.checks)

\* prisma up to its await, or to its end when nothing is loaded.
prisma_schema(dir, input) ==
    LET probe == findPrismaConfigFile(dir)
        hasPrisma == probe.value # Undefined
    IN  IF isPrismaUnused(input, hasPrisma) THEN Return(NoPrisma, probe.checks)
        ELSE
          LET in == useAllDefaults(input, hasPrisma)
              prismaClientPath == inputOrDefaultPath(dir, in.prismaClientPath,
                                      DEFAULTS.prisma.prismaClientPath)
          IN  IF in.nexusPrismaSchema # NoObject
              THEN prismaRecord_schema(prismaClientPath, in.nexusPrismaSchema,
                                       in, probe.checks)
              ELSE
                LET schema == requiredPath(DEFAULT_NEXUS_PRISMA_SCHEMA_PATH,
                       Message("Could not find a valid prisma.nexusPrismaSchema at ",
                               DEFAULT_NEXUS_PRISMA_SCHEMA_PATH))
                IN  IF schema.threw
                    THEN Throw(schema.error, probe.checks \o schema.checks)
                    ELSE Await(<<Request(schema.value, "default")>>,
                               [input |-> in, prismaClientPath |-> prismaClientPath,
                                output |-> <<>>],
                               probe.checks \o schema.checks)

----------------------------------------------------------------------------
(* prisma, revision "datamodel" (part_000) *)

\* importDatamodelInfoAndClient up to its await.
importDatamodelInfoAndClient(opts) ==
    LET client == requiredPath(DEFAULT_PRISMA_CLIENT_PATH, Message("", Undefined))
        loadClient == opts.client = NoObject
        files == IF loadClient THEN <<Request(client.value, "prisma")>> ELSE <<>>
        out == IF loadClient THEN <<>> ELSE <<opts.client>>
        checks == IF loadClient THEN client.checks ELSE <<>>
        datamodelInfoPath == inputOrDefaultPath(opts.projectDir, opts.datamodelInfo,
                                                DEFAULT_META_SCHEMA_PATH)
        info == requiredPath(datamodelInfoPath,
                    Message("Could not find a valid prisma.datamodelInfo at ",
                            datamodelInfoPath))
    IN  IF loadClient /\ client.threw THEN Throw(client.error, checks)
        ELSE IF info.threw THEN Throw(info.error, checks \o info.checks)
        ELSE Await(Append(files, Request(info.value, "default")),
                   [input |-> EmptyPrismaInput, prismaClientPath |-> Undefined,
                    output |-> out],
                   checks \o info.checks)

\* Mutant of importDatamodelInfoAndClient_return: the imported files come
\* before the inline client.
importDatamodelInfoAndClient_return_swapped(out, importedFiles) ==
    importedFiles \o out

\* `return [...output, ...importedFiles]`
importDatamodelInfoAndClient_return(out, importedFiles) == out \o importedFiles

\* prisma up to the await on importDatamodelInfoAndClient.
prisma_datamodel(dir, input, out) ==
    LET probe == findPrismaConfigFile(dir)
        hasPrisma == probe.value # Undefined
    IN  IF isPrismaUnused(input, hasPrisma) THEN Return(NoPrisma, probe.checks)
        ELSE
          LET in == useAllDefaults(input, hasPrisma)
              call == importDatamodelInfoAndClient(
                          [datamodelInfo |-> in.datamodelInfoPath,
                           client |-> in.client,
                           outDir |-> out,
                           projectDir |-> dir])
          IN  [call EXCEPT !.checks = probe.checks \o call.checks]

\* `const [client, datamodelInfo] = await ...; return {datamodelInfo, client}`
prismaRecord_datamodel(pair) ==
    [NoPrisma EXCEPT !.defined = TRUE, !.client = pair[1], !.datamodelInfo = pair[2]]

----------------------------------------------------------------------------
(* Inputs *)

\* The most files a filesystem snapshot holds.
MaxFiles == 4

ProjectRoot == <<"", "proj">>

WorkingDirs == {ProjectRoot, <<"", "proj", "app">>}

Revisions == {"schema", "datamodel"}

ContextInputs == {Undefined, EmptyString, <<".", "nope.ts">>}

ResolversInputs == {Undefined, <<"..", "lib", "">>}

EjectInputs == {Undefined, <<".", "main.ts">>}

OutputInputs ==
    {[typegenPath |-> Undefined, schemaPath |-> Undefined, buildPath |-> Undefined],
     [typegenPath |-> <<".", "gen", "types.ts">>, schemaPath |-> Undefined,
      buildPath |-> <<".", "out">>]}

OutDirs == {Undefined, <<"", "proj", "build">>}

UserSchema == InlineObject("nexusPrismaSchema")

UserClient == InlineObject("client")

PrismaInputs(rev) ==
    {[EmptyPrismaInput EXCEPT !.kind = "undefined"],
     [EmptyPrismaInput EXCEPT !.kind = "true"]}
    \cup
    (IF rev = "schema"
     THEN {[EmptyPrismaInput EXCEPT !.nexusPrismaSchema = UserSchema],
           [EmptyPrismaInput EXCEPT !.prismaClientPath = <<".", "db", "client.ts">>,
                                    !.contextClientName = <<"db">>]}
     ELSE {[EmptyPrismaInput EXCEPT !.client = UserClient],
           [EmptyPrismaInput EXCEPT !.datamodelInfoPath = <<".", "db", "info.ts">>]})

Configs(rev) ==
    [contextPath : ContextInputs, resolversPath : ResolversInputs,
     ejectFilePath : EjectInputs, output : OutputInputs, prisma : PrismaInputs(rev)]

\* Where each path of the inputs and each default lies on disk when the
\* project root is ProjectRoot, written out by hand.
ContextFile(cfg) ==
    IF cfg.contextPath = <<".", "nope.ts">> THEN <<"", "proj", "nope.ts">>
    ELSE <<"", "proj", "src", "context.ts">>

ResolversDir(cfg) ==
    IF cfg.resolversPath = <<"..", "lib", "">> THEN <<"", "lib">>
    ELSE <<"", "proj", "src", "graphql">>

EjectFile(cfg) ==
    IF cfg.ejectFilePath = <<".", "main.ts">> THEN <<"", "proj", "main.ts">>
    ELSE <<"", "proj", "src", "index.ts">>

ClientFile(cfg) ==
    IF cfg.prisma.prismaClientPath = <<".", "db", "client.ts">>
    THEN <<"", "proj", "db", "client.ts">>
    ELSE <<"", "proj", "yoga", "prisma-client", "index.ts">>

DescriptorFile(rev, cfg) ==
    IF rev = "schema" THEN <<"", "proj", "yoga", "nexus-prisma", "nexus-prisma.ts">>
    ELSE IF cfg.prisma.datamodelInfoPath = <<".", "db", "info.ts">>
         THEN <<"", "proj", "db", "info.ts">>
         ELSE <<"", "proj", "yoga", "nexus-prisma", "datamodel-info.ts">>

PrismaYmlFiles(wd) == {<<"", "proj", "prisma.yml">>, wd \o <<"prisma", "prisma.yml">>}

\* The files a run can look at: those above, and the tool's default client
\* and descriptor files as seen from the working directory.
RelevantFiles(rev, cfg, wd) ==
    {ContextFile(cfg), ResolversDir(cfg), EjectFile(cfg), ClientFile(cfg),
     DescriptorFile(rev, cfg)}
    \cup PrismaYmlFiles(wd)
    \cup (IF rev = "schema"
          THEN {wd \o <<"yoga", "nexus-prisma", "nexus-prisma.ts">>}
          ELSE {wd \o <<"yoga", "prisma-client", "index.ts">>})

Snapshots(rev, cfg, wd) ==
    {files \in SUBSET RelevantFiles(rev, cfg, wd) : Cardinality(files) <= MaxFiles}

NoPending == [files |-> <<>>, input |-> EmptyPrismaInput,
              prismaClientPath |-> Undefined, output |-> <<>>]

Init ==
    /\ revision \in Revisions
    /\ config \in Configs(revision)
    /\ projectDir = ProjectRoot
    /\ outDir \in OutDirs
    /\ cwd \in WorkingDirs
    /\ fs \in Snapshots(revision, config, cwd)
    /\ pc = IF revision = "schema" THEN "contextPath" ELSE "output"
    /\ outputConfig = [contextPath |-> Undefined, resolversPath |-> Undefined,
                       ejectFilePath |-> Undefined,
                       output |-> [typegenPath |-> Undefined,
                                   schemaPath |-> Undefined,
                                   buildPath |-> Undefined],
                       prisma |-> NoPrisma]
    /\ error = NoError
    /\ thrownBy = "none"
    /\ checked = <<>>
    /\ loads = <<>>
    /\ pending = NoPending

----------------------------------------------------------------------------
(* normalizeConfig, one action per field of outputConfig.  The "schema"    *)
(* revision evaluates contextPath, resolversPath, ejectFilePath, output,   *)
(* prisma in the order of the object literal; the "datamodel" revision     *)
(* evaluates output first.                                                 *)

Failed(r, who) ==
    /\ pc' = "failed"
    /\ error' = r.error
    /\ thrownBy' = who
    /\ checked' = checked \o r.checks
    /\ UNCHANGED <<inputs, outputConfig, loads, pending>>

ContextPath ==
    /\ pc = "contextPath"
    /\ LET r == contextPath(projectDir, config.contextPath)
       IN  IF r.threw THEN Failed(r, "contextPath")
           ELSE /\ pc' = "resolversPath"
                /\ outputConfig' = [outputConfig EXCEPT !.contextPath = r.value]
                /\ checked' = checked \o r.checks
                /\ UNCHANGED <<inputs, error, thrownBy, loads, pending>>

ResolversPath ==
    /\ pc = "resolversPath"
    /\ LET r == resolversPath(projectDir, config.resolversPath)
       IN  IF r.threw THEN Failed(r, "resolversPath")
           ELSE /\ pc' = "ejectFilePath"
                /\ outputConfig' = [outputConfig EXCEPT !.resolversPath = r.value]
                /\ checked' = checked \o r.checks
                /\ UNCHANGED <<inputs, error, thrownBy, loads, pending>>

EjectFilePath ==
    /\ pc = "ejectFilePath"
    /\ LET r == ejectFilePath(projectDir, config.ejectFilePath)
       IN  IF r.threw THEN Failed(r, "ejectFilePath")
           ELSE /\ pc' = IF revision = "schema" THEN "output" ELSE "prisma"
                /\ outputConfig' = [outputConfig EXCEPT !.ejectFilePath = r.value]
                /\ checked' = checked \o r.checks
                /\ UNCHANGED <<inputs, error, thrownBy, loads, pending>>

Output ==
    /\ pc = "output"
    /\ pc' = IF revision = "schema" THEN "prisma" ELSE "contextPath"
    /\ outputConfig' = [outputConfig EXCEPT
                            !.output = output(projectDir, config.output, outDir)]
    /\ UNCHANGED <<inputs, error, thrownBy, checked, loads, pending>>

\* prisma ran to a throw, to its return, or to an await on the loader.
PrismaStep(r) ==
    IF r.threw THEN Failed(r, "prisma")
    ELSE /\ checked' = checked \o r.checks
         /\ UNCHANGED <<inputs, error, thrownBy>>
         /\ IF r.await = <<>>
            THEN /\ pc' = "done"
                 /\ outputConfig' = [outputConfig EXCEPT !.prisma = r.value]
                 /\ UNCHANGED <<loads, pending>>
            ELSE /\ pc' = "await"
                 /\ loads' = Append(loads, r.await)
                 /\ pending' = [files |-> r.await, input |-> r.value.input,
                                prismaClientPath |-> r.value.prismaClientPath,
                                output |-> r.value.output]
                 /\ UNCHANGED outputConfig

PrismaSchema ==
    /\ pc = "prisma"
    /\ revision = "schema"
    /\ PrismaStep(prisma_schema(projectDir, config.prisma))

PrismaDatamodel ==
    /\ pc = "prisma"
    /\ revision = "datamodel"
    /\ PrismaStep(prisma_datamodel(projectDir, config.prisma,
                                   outputConfig.output.buildPath))

\* The loader resolves; prisma goes on to its return.
ImportedSchema ==
    /\ pc = "await"
    /\ revision = "schema"
    /\ LET imported == transpileAndImportDefault(projectDir, pending.files[1].filePath)
           r == prismaRecord_schema(pending.prismaClientPath, imported,
                                    pending.input, <<>>)
       IN  IF r.threw THEN Failed(r, "prisma")
           ELSE /\ pc' = "done"
                /\ outputConfig' = [outputConfig EXCEPT !.prisma = r.value]
                /\ checked' = checked \o r.checks
                /\ UNCHANGED <<inputs, error, thrownBy, loads, pending>>

ImportedDatamodel ==
    /\ pc = "await"
    /\ revision = "datamodel"
    /\ LET importedFiles == transpileAndImport(pending.files, projectDir,
                                               outputConfig.output.buildPath)
           pair == importDatamodelInfoAndClient_return(pending.output, importedFiles)
       IN  /\ pc' = "done"
           /\ outputConfig' = [outputConfig EXCEPT
                                   !.prisma = prismaRecord_datamodel(pair)]
           /\ UNCHANGED <<inputs, error, thrownBy, checked, loads, pending>>

Next ==
    \/ ContextPath
    \/ ResolversPath
    \/ EjectFilePath
    \/ Output
    \/ PrismaSchema
    \/ PrismaDatamodel
    \/ ImportedSchema
    \/ ImportedDatamodel

Spec == Init /\ [][Next]_vars

----------------------------------------------------------------------------
(* Vocabulary of the properties *)

Range(seq) == {seq[i] : i \in DOMAIN seq}

Terminal == pc \in {"done", "failed"}

\* The requests of every loader call, flattened in call order.
RECURSIVE Flatten(_)
Flatten(calls) == IF calls = <<>> THEN <<>> ELSE Head(calls) \o Flatten(Tail(calls))

Requested == Flatten(loads)

ProbeFinds == PrismaYmlFiles(cwd) \cap fs # {}

ExplicitAndMissing(input, file) == Truthy(input) /\ file \notin fs

UnsetAndMissing(input, file) == ~Truthy(input) /\ file \notin fs

\* The resolved forms, written out: the resolvers path keeps the trailing
\* separator of its input.
ResolversResolved == Append(ResolversDir(config), "")

TypegenResolved ==
    IF config.output.typegenPath = <<".", "gen", "types.ts">>
    THEN <<"", "proj", "gen", "types.ts">>
    ELSE <<"", "proj", "yoga", "nexus.ts">>

SchemaResolved == <<"", "proj", "src", "schema.graphql">>

BuildResolved == IF outDir # Undefined THEN outDir ELSE <<"", "proj", "dist">>

\* Every spelling of a client-binding or descriptor path the code can use.
SubsystemPaths ==
    {ClientFile(config), DescriptorFile(revision, config),
     DEFAULT_PRISMA_CLIENT_PATH, DEFAULT_NEXUS_PRISMA_SCHEMA_PATH,
     DEFAULT_META_SCHEMA_PATH}

\* The subsystem resolver has run to an outcome or to its await.
PrismaRan == pc \in {"await", "done"} \/ (pc = "failed" /\ thrownBy = "prisma")

----------------------------------------------------------------------------
(* Properties *)

\* C1: whenever normalizeConfig succeeds, the resolved prisma record is
\* present if and only if the user supplied the prisma field (true or an
\* object) or a prisma.yml exists at <projectDir>/prisma.yml or at
\* <cwd>/prisma/prisma.yml; it is undefined exactly when the field is absent
\* and neither file exists.
C1_PrismaPresentIffEnabledOrDetected ==
    pc = "done" =>
        (outputConfig.prisma.defined <=>
            (config.prisma.kind # "undefined" \/ ProbeFinds))

\* C1 witness: a successful run that enabled prisma only because the
\* fallback <cwd>/prisma/prisma.yml exists.
C1_Witness ==
    /\ pc = "done"
    /\ config.prisma.kind = "undefined"
    /\ <<"", "proj", "prisma.yml">> \notin fs
    /\ outputConfig.prisma.defined

\* C2: when the user sets contextPath or ejectFilePath to a path whose
\* project-root-joined form does not exist, normalizeConfig never returns a
\* config: the field's resolver throws the error naming the joined path as
\* soon as it runs, and the default path of the field is never looked at.
C2_ExplicitOptionalMissingFails ==
    /\ ExplicitAndMissing(config.contextPath, ContextFile(config)) =>
          /\ pc \in {"contextPath", "output", "failed"}
          /\ revision = "schema" => pc # "output"
          /\ pc = "failed" =>
                /\ thrownBy = "contextPath"
                /\ error = Message("Could not find a valid contextPath at ",
                                   ContextFile(config))
          /\ <<"", "proj", "src", "context.ts">> \notin Range(checked)
    /\ ExplicitAndMissing(config.ejectFilePath, EjectFile(config)) =>
          /\ pc \notin {"prisma", "await", "done"}
          /\ revision = "schema" => pc # "output"
          /\ (pc = "failed" /\ thrownBy = "ejectFilePath") =>
                error = Message("Could not find a valid ejectFilePath at ",
                                EjectFile(config))
          /\ <<"", "proj", "src", "index.ts">> \notin Range(checked)

\* C2 witness: the run failed in ejectFilePath on a user-supplied path.
C2_Witness ==
    /\ pc = "failed"
    /\ thrownBy = "ejectFilePath"
    /\ ExplicitAndMissing(config.ejectFilePath, EjectFile(config))

\* C3: when contextPath (ejectFilePath) is not supplied and its default
\* ./src/context.ts (./src/index.ts) under the project root does not exist,
\* the field raises no error and is undefined in the resolved config; with
\* the config {} , the resolvers directory present and no prisma.yml
\* anywhere the run cannot fail, and it ends with prisma undefined.
C3_UnsetOptionalMissingIsAbsent ==
    /\ UnsetAndMissing(config.contextPath, ContextFile(config)) =>
          thrownBy # "contextPath" /\ outputConfig.contextPath = Undefined
    /\ UnsetAndMissing(config.ejectFilePath, EjectFile(config)) =>
          thrownBy # "ejectFilePath" /\ outputConfig.ejectFilePath = Undefined
    /\ ( /\ ~Truthy(config.contextPath)
         /\ config.resolversPath = Undefined
         /\ config.ejectFilePath = Undefined
         /\ config.prisma.kind = "undefined"
         /\ <<"", "proj", "src", "graphql">> \in fs
         /\ ~ProbeFinds ) =>
          /\ pc # "failed"
          /\ pc = "done" => ~outputConfig.prisma.defined

\* C3 witness: a successful run in which neither optional field was
\* supplied and neither default file exists.
C3_Witness ==
    /\ pc = "done"
    /\ UnsetAndMissing(config.contextPath, ContextFile(config))
    /\ UnsetAndMissing(config.ejectFilePath, EjectFile(config))
    /\ outputConfig.contextPath = Undefined
    /\ outputConfig.ejectFilePath = Undefined

\* C4 as claimed: a successful run resolves resolversPath to a path that
\* exists, and every run whose project-root-joined resolvers path does not
\* exist ends in an error whose message names that path.
C4_AsClaimed ==
    /\ pc = "done" =>
          /\ ResolversDir(config) \in fs
          /\ outputConfig.resolversPath = ResolversResolved
    /\ (Terminal /\ ResolversDir(config) \notin fs) =>
          /\ pc = "failed"
          /\ error = Message("Could not find a valid resolversPath at ",
                             ResolversResolved)

\* C4 amended: contextPath is validated before resolversPath, so when the
\* resolvers path does not exist the run still always fails, naming the
\* resolvers path unless a user-supplied contextPath is missing too; in that
\* case the error is contextPath's.
C4_ResolversRequired ==
    /\ pc = "done" =>
          /\ ResolversDir(config) \in fs
          /\ outputConfig.resolversPath = ResolversResolved
    /\ (Terminal /\ ResolversDir(config) \notin fs) =>
          /\ pc = "failed"
          /\ IF ExplicitAndMissing(config.contextPath, ContextFile(config))
             THEN /\ thrownBy = "contextPath"
                  /\ error = Message("Could not find a valid contextPath at ",
                                     ContextFile(config))
             ELSE /\ thrownBy = "resolversPath"
                  /\ error = Message("Could not find a valid resolversPath at ",
                                     ResolversResolved)

\* C4 witness: the run failed in resolversPath on the default path.
C4_Witness ==
    /\ pc = "failed"
    /\ thrownBy = "resolversPath"
    /\ config.resolversPath = Undefined
    /\ error.at = <<"", "proj", "src", "graphql", "">>

\* C5 as claimed: when prisma is enabled by true or by detection and
\* /proj/yoga/prisma-client/index.ts does not exist, every run that gets as
\* far as the subsystem ends in an error naming that client path, whatever
\* the state of the descriptor file.
C5_AsClaimed ==
    ( /\ Terminal
      /\ pc = "failed" => thrownBy = "prisma"
      /\ config.prisma.kind = "true" \/ (config.prisma.kind = "undefined" /\ ProbeFinds)
      /\ <<"", "proj", "yoga", "prisma-client", "index.ts">> \notin fs ) =>
        /\ pc = "failed"
        /\ error.at = <<"", "proj", "yoga", "prisma-client", "index.ts">>

\* C6 as claimed: in every successful run, every path of the resolved
\* config, every path handed to existsSync and every path handed to the
\* loader is absolute and is the project root joined with the user's value
\* or the documented default (for the build path: the tsconfig outDir when
\* one is supplied).
C6_AsClaimed ==
    pc = "done" =>
        /\ outputConfig.contextPath \in {Undefined, ContextFile(config)}
        /\ outputConfig.resolversPath = ResolversResolved
        /\ outputConfig.ejectFilePath \in {Undefined, EjectFile(config)}
        /\ outputConfig.output.typegenPath = TypegenResolved
        /\ outputConfig.output.schemaPath = SchemaResolved
        /\ outputConfig.output.buildPath = BuildResolved
        /\ outputConfig.prisma.prismaClientPath \in {Undefined, ClientFile(config)}
        /\ \A path \in Range(checked) :
              /\ IsAbsolute(path)
              /\ path \in {ContextFile(config), ResolversResolved, EjectFile(config),
                            ClientFile(config), DescriptorFile(revision, config)}
                           \cup PrismaYmlFiles(cwd)
        /\ \A request \in Range(Requested) :
              /\ IsAbsolute(request.filePath)
              /\ request.filePath \in {ClientFile(config),
                                        DescriptorFile(revision, config)}

\* C7: once output has run, the resolved build path is the tsconfig outDir
\* as given whenever one is supplied, whatever output.buildPath says, and
\* <projectDir>/dist otherwise; neither it nor the user's output.buildPath
\* is ever handed to existsSync.
C7_BuildPath ==
    /\ (pc # "output" /\ (revision = "schema" => PrismaRan \/ pc = "prisma")) =>
          outputConfig.output.buildPath =
              IF outDir # Undefined THEN outDir ELSE <<"", "proj", "dist">>
    /\ \A path \in Range(checked) :
          path \notin {outDir, <<"", "proj", "dist">>, <<"", "proj", "out">>,
                       <<".", "out">>, <<".", "dist">>}

\* C7 witness: a successful run given both an outDir and an
\* output.buildPath.
C7_Witness ==
    /\ pc = "done"
    /\ outDir = <<"", "proj", "build">>
    /\ config.output.buildPath = <<".", "out">>
    /\ outputConfig.output.buildPath = <<"", "proj", "build">>

\* C8: with prisma enabled and an inline nexusPrismaSchema object, no
\* descriptor path is handed to existsSync, the loader is never called and
\* a successful run carries exactly that object; a descriptor path is
\* checked or loaded only when no inline object was supplied, and then a
\* successful run carries the default export loaded from the checked path.
C8_InlineDescriptor ==
    /\ config.prisma.nexusPrismaSchema = UserSchema =>
          /\ loads = <<>>
          /\ Range(checked) \cap {DEFAULT_NEXUS_PRISMA_SCHEMA_PATH,
                                   DescriptorFile(revision, config)} = {}
          /\ pc = "done" =>
                /\ outputConfig.prisma.defined
                /\ outputConfig.prisma.nexusPrismaSchema = UserSchema
    /\ \A request \in Range(Requested) :
          request.exportName = "default" =>
              /\ config.prisma.nexusPrismaSchema = NoObject
              /\ request.filePath \in Range(checked)
    /\ (pc = "done" /\ outputConfig.prisma.defined
           /\ config.prisma.nexusPrismaSchema = NoObject) =>
          \E request \in Range(Requested) :
              /\ request.exportName = "default"
              /\ Loaded(request.filePath, "default") =
                    IF revision = "schema"
                    THEN outputConfig.prisma.nexusPrismaSchema
                    ELSE outputConfig.prisma.datamodelInfo

\* C8 witness: a successful run of the "schema" revision with an inline
\* nexusPrismaSchema.
C8_Witness ==
    /\ pc = "done"
    /\ revision = "schema"
    /\ config.prisma.nexusPrismaSchema = UserSchema
    /\ outputConfig.prisma.nexusPrismaSchema = UserSchema

\* C9: in the "datamodel" revision the loader is called at most once, with
\* the client request (export prisma, present exactly when no client was
\* supplied inline) before the descriptor request (export default); with a
\* loader that keeps the order of its requests a successful run binds
\* client to the inline or loaded client and datamodelInfo to the loaded
\* descriptor.
C9_ClientThenDescriptor ==
    revision = "datamodel" =>
        /\ Len(loads) <= 1
        /\ pc = "await" => Len(loads) = 1
        /\ \A i \in DOMAIN loads :
              [j \in DOMAIN loads[i] |-> loads[i][j].exportName] =
                  IF config.prisma.client = NoObject
                  THEN <<"prisma", "default">>
                  ELSE <<"default">>
        /\ (pc = "done" /\ outputConfig.prisma.defined) =>
              /\ outputConfig.prisma.datamodelInfo.src = "loaded"
              /\ outputConfig.prisma.datamodelInfo.export = "default"
              /\ IF config.prisma.client = NoObject
                 THEN /\ outputConfig.prisma.client.src = "loaded"
                      /\ outputConfig.prisma.client.export = "prisma"
                 ELSE outputConfig.prisma.client = config.prisma.client

\* C9 witness: a successful run of the "datamodel" revision with an inline
\* client and a loaded descriptor.
C9_Witness ==
    /\ pc = "done"
    /\ revision = "datamodel"
    /\ config.prisma.client = UserClient
    /\ outputConfig.prisma.client = UserClient
    /\ outputConfig.prisma.datamodelInfo.src = "loaded"

\* C10: when the prisma field is absent and no prisma.yml is found, the
\* subsystem resolver stops at once: no client or descriptor path is handed
\* to existsSync, the loader is never called, no error is thrown by the
\* subsystem, and a successful run has prisma undefined.
C10_DisabledShortCircuits ==
    (config.prisma.kind = "undefined" /\ ~ProbeFinds) =>
        /\ Range(checked) \cap SubsystemPaths = {}
        /\ loads = <<>>
        /\ pc # "await"
        /\ thrownBy # "prisma"
        /\ pc = "done" => ~outputConfig.prisma.defined

\* C10 witness: a successful run with prisma disabled although neither the
\* client file nor the descriptor file exists.
C10_Witness ==
    /\ pc = "done"
    /\ config.prisma.kind = "undefined"
    /\ ~ProbeFinds
    /\ fs \cap {ClientFile(config), DescriptorFile(revision, config)} = {}
    /\ ~outputConfig.prisma.defined

====
